---- MODULE Spec2Model ----
(***************************************************************************)
(* XmlToLuaConverter: the BMFont XML decoder (parse_fnt), the Lua emitter  *)
(* (format_output) and the egui front end (FontParserApp::update) of       *)
(* src/src/main.rs.                                                        *)
(*                                                                         *)
(* Text is a sequence of Unicode scalar values (a Rust String, one element *)
(* per char): "65" is <<54, 53>>.  The XML tokenizer (quick_xml) is a      *)
(* library: an input file is the sequence of events read_event_into        *)
(* yields for it, each element carrying the items its attributes()         *)
(* iterator yields (an Ok key/value pair or an Err).                       *)
(***************************************************************************)
EXTENDS Integers, Sequences, FiniteSets, TLC

VARIABLES
    input,          \* core pipeline: the file handed to parse_fnt
    pc,             \* core pipeline: "start", "parsed", "formatted"
    parsed,         \* core pipeline: what parse_fnt returned
    output,         \* core pipeline: what format_output returned
    selected_file,  \* FontParserApp.selected_file (NoPath is None)
    status,         \* FontParserApp.status: [message, status]
    disk,           \* the output files on disk: path -> text
    frame           \* the last update(): the button clicked, the calls it made

vars == <<input, pc, parsed, output, selected_file, status, disk, frame>>

-----------------------------------------------------------------------------
(* Integer types *)

I32Max == 2147483647
I32Min == -2147483647 - 1

IsDigit(c) == c >= 48 /\ c <= 57

\* One step of from_str_radix for a non-negative accumulator of maximum
\* `max`: checked_mul(10) then checked_add(d).  max is maxq * 10 + maxr.
PosStep(acc, d, maxq, maxr) ==
    IF ~acc.ok THEN acc
    ELSE IF acc.val > maxq \/ (acc.val = maxq /\ d > maxr)
         THEN [ok |-> FALSE, val |-> 0]
         ELSE [ok |-> TRUE, val |-> acc.val * 10 + d]

\* One step for a negative i32: checked_mul(10) then checked_sub(d).
NegStep(acc, d) ==
    IF ~acc.ok THEN acc
    ELSE IF acc.val < -214748364 \/ (acc.val = -214748364 /\ d > 8)
         THEN [ok |-> FALSE, val |-> 0]
         ELSE [ok |-> TRUE, val |-> acc.val * 10 - d]

RECURSIVE Digits(_, _, _, _, _, _)
\* Folds the digits s[i..] into acc; a char that is no digit is InvalidDigit.
Digits(s, i, acc, neg, maxq, maxr) ==
    IF i > Len(s) THEN acc
    ELSE IF ~IsDigit(s[i]) THEN [ok |-> FALSE, val |-> 0]
    ELSE Digits(s, i + 1,
                IF neg THEN NegStep(acc, s[i] - 48)
                       ELSE PosStep(acc, s[i] - 48, maxq, maxr),
                neg, maxq, maxr)

\* str::parse::<i32>: an optional '+' or '-', then one or more ASCII digits,
\* the value within i32.
parse_i32(s) ==
    IF Len(s) = 0 THEN [ok |-> FALSE, val |-> 0]
    ELSE IF Len(s) = 1 /\ s[1] \in {43, 45} THEN [ok |-> FALSE, val |-> 0]
    ELSE IF s[1] = 43 THEN Digits(s, 2, [ok |-> TRUE, val |-> 0], FALSE, 214748364, 7)
    ELSE IF s[1] = 45 THEN Digits(s, 2, [ok |-> TRUE, val |-> 0], TRUE, 214748364, 7)
    ELSE Digits(s, 1, [ok |-> TRUE, val |-> 0], FALSE, 214748364, 7)

\* str::parse::<u32>: an optional '+', then one or more ASCII digits, the
\* value at most 4294967295 ('-' is no sign of an unsigned type).  Values
\* from 2^31 on are accepted by the range test but exceed TLC's integers;
\* the input sets below hold none.
parse_u32(s) ==
    IF Len(s) = 0 THEN [ok |-> FALSE, val |-> 0]
    ELSE IF Len(s) = 1 /\ s[1] \in {43, 45} THEN [ok |-> FALSE, val |-> 0]
    ELSE IF s[1] = 43 THEN Digits(s, 2, [ok |-> TRUE, val |-> 0], FALSE, 429496729, 5)
    ELSE Digits(s, 1, [ok |-> TRUE, val |-> 0], FALSE, 429496729, 5)

RECURSIVE DecDigits(_)
\* The decimal digits of n >= 0, most significant first.
DecDigits(n) ==
    IF n < 10 THEN <<48 + n>> ELSE Append(DecDigits(n \div 10), 48 + (n % 10))

RECURSIVE NegDecDigits(_)
\* The decimal digits of |n| for n < 0 (|i32::MIN| is no i32).
NegDecDigits(n) ==
    LET d == (10 - (n % 10)) % 10
        q == (n + d) \div 10
    IN  IF q = 0 THEN <<48 + d>> ELSE Append(NegDecDigits(q), 48 + d)

\* Display for i32 ("{}").
to_string(n) == IF n < 0 THEN <<45>> \o NegDecDigits(n) ELSE DecDigits(n)

HexDigit(d) == IF d < 10 THEN 48 + d ELSE 55 + d

RECURSIVE UpperHex(_)
\* UpperHex for u32 ("{:X}").
UpperHex(n) ==
    IF n < 16 THEN <<HexDigit(n)>>
    ELSE Append(UpperHex(n \div 16), HexDigit(n % 16))

\* char::from_u32 is Some: a Unicode scalar value.
from_u32(id) == id <= 1114111 /\ ~(id >= 55296 /\ id <= 57343)

\* char::is_ascii_control in the place of char::is_control.
is_ascii_control(c) == c <= 31 \/ c = 127

\* char::is_control: general category Cc.
is_control(c) == c <= 31 \/ (c >= 127 /\ c <= 159)

-----------------------------------------------------------------------------
(* The decoder *)

\* Locals that start as -1 ("not seen") and not as 0.
CharLocalsUnset ==
    [id |-> 0, width |-> -1, height |-> -1, x |-> -1, y |-> -1,
     xoffset |-> -1, yoffset |-> -1, xadvance |-> -1]

\* The locals of the char arm before its attribute loop.
CharLocals ==
    [id |-> 0, width |-> 0, height |-> 0, x |-> 0, y |-> 0,
     xoffset |-> 0, yoffset |-> 0, xadvance |-> 0]

\* parse().unwrap_or_default() in the place of parse()?: a value that is no
\* integer counts as 0.
CharAttrLenient(l, attr) ==
    IF ~attr.ok THEN [ok |-> FALSE, l |-> l]
    ELSE IF attr.key = "id" THEN
        [ok |-> TRUE, l |-> [l EXCEPT !.id = parse_u32(attr.value).val]]
    ELSE IF attr.key \in {"x", "y", "width", "height", "xoffset", "yoffset", "xadvance"} THEN
        [ok |-> TRUE, l |-> [l EXCEPT ![attr.key] = parse_i32(attr.value).val]]
    ELSE [ok |-> TRUE, l |-> l]

\* An attribute loop whose last arm parses the value of any other key too.
CharAttrStrict(l, attr) ==
    IF ~attr.ok THEN [ok |-> FALSE, l |-> l]
    ELSE IF attr.key = "id" THEN
        LET r == parse_u32(attr.value) IN [ok |-> r.ok, l |-> [l EXCEPT !.id = r.val]]
    ELSE IF attr.key \in {"x", "y", "width", "height", "xoffset", "yoffset", "xadvance"} THEN
        LET r == parse_i32(attr.value) IN [ok |-> r.ok, l |-> [l EXCEPT ![attr.key] = r.val]]
    ELSE [ok |-> parse_i32(attr.value).ok, l |-> l]

\* One iteration of the char arm's attribute loop; ok = FALSE is the `?`
\* returning the error from parse_fnt.
CharAttr(l, attr) ==
    IF ~attr.ok THEN [ok |-> FALSE, l |-> l]
    ELSE IF attr.key = "id" THEN
        LET r == parse_u32(attr.value) IN [ok |-> r.ok, l |-> [l EXCEPT !.id = r.val]]
    ELSE IF attr.key \in {"x", "y", "width", "height", "xoffset", "yoffset", "xadvance"} THEN
        LET r == parse_i32(attr.value) IN [ok |-> r.ok, l |-> [l EXCEPT ![attr.key] = r.val]]
    ELSE [ok |-> TRUE, l |-> l]

RECURSIVE CharAttrs(_, _, _)
CharAttrs(attrs, i, l) ==
    IF i > Len(attrs) THEN [ok |-> TRUE, l |-> l]
    ELSE LET r == CharAttr(l, attrs[i])
         IN  IF r.ok THEN CharAttrs(attrs, i + 1, r.l) ELSE [ok |-> FALSE, l |-> l]

Character(l) ==
    [size |-> [width |-> l.width, height |-> l.height],
     position |-> [x |-> l.x, y |-> l.y],
     offset |-> [x |-> l.xoffset, y |-> l.yoffset],
     advance |-> l.xadvance]

\* entry(k).or_insert(v) in the place of insert(k, v): the first value stays.
insert_if_vacant(m, k, v) ==
    [c \in DOMAIN m \cup {k} |-> IF c \in DOMAIN m THEN m[c] ELSE v]

\* BTreeMap::insert: the value replaces the one the key had.
insert(m, k, v) == [c \in DOMAIN m \cup {k} |-> IF c = k THEN v ELSE m[c]]

\* One iteration of the info arm's attribute loop.
InfoAttr(font_size, attr) ==
    IF ~attr.ok THEN [ok |-> FALSE, font_size |-> font_size]
    ELSE IF attr.key = "size" THEN
        LET r == parse_i32(attr.value)
        IN  [ok |-> r.ok, font_size |-> IF r.ok THEN r.val ELSE font_size]
    ELSE [ok |-> TRUE, font_size |-> font_size]

RECURSIVE InfoAttrs(_, _, _)
InfoAttrs(attrs, i, font_size) ==
    IF i > Len(attrs) THEN [ok |-> TRUE, font_size |-> font_size]
    ELSE LET r == InfoAttr(font_size, attrs[i])
         IN  IF r.ok THEN InfoAttrs(attrs, i + 1, r.font_size)
             ELSE [ok |-> FALSE, font_size |-> font_size]

Failed == [ok |-> FALSE, font_size |-> 0, characters |-> <<>>]

RECURSIVE Loop(_, _, _, _)
\* The event loop from event i on: Eof (the end of the sequence) and an Err
\* event break, an attribute error returns Err, any other event is skipped.
Loop(events, i, font_size, characters) ==
    IF i > Len(events) THEN
        [ok |-> TRUE, font_size |-> font_size, characters |-> characters]
    ELSE LET e == events[i] IN
        IF e.kind = "Empty" /\ e.name = "char" THEN
            LET r == CharAttrs(e.attrs, 1, CharLocals)
            IN  IF r.ok
                THEN Loop(events, i + 1, font_size,
                          insert(characters, r.l.id, Character(r.l)))
                ELSE Failed
        ELSE IF e.kind = "Empty" /\ e.name = "info" THEN
            LET r == InfoAttrs(e.attrs, 1, font_size)
            IN  IF r.ok THEN Loop(events, i + 1, r.font_size, characters)
                ELSE Failed
        ELSE IF e.kind = "Err" THEN
            [ok |-> TRUE, font_size |-> font_size, characters |-> characters]
        ELSE Loop(events, i + 1, font_size, characters)

\* parse_fnt: a file that cannot be opened or read as UTF-8 is an Err.
parse_fnt(file) ==
    IF ~file.readable THEN Failed ELSE Loop(file.events, 1, 0, <<>>)

-----------------------------------------------------------------------------
(* The emitter *)

Min(S) == CHOOSE m \in S : \A o \in S : m <= o

RECURSIVE Ascending(_)
Ascending(S) == IF S = {} THEN <<>> ELSE <<Min(S)>> \o Ascending(S \ {Min(S)})

RECURSIVE Descending(_)
Descending(S) ==
    IF S = {} THEN <<>> ELSE Descending(S \ {Min(S)}) \o <<Min(S)>>

\* The keys as font_data.iter().rev() yields them.
iter_rev(font_data) == Descending(DOMAIN font_data)

\* The keys in the order BTreeMap's iterator yields them.
iter(font_data) == Ascending(DOMAIN font_data)

spaces == <<32, 32, 32, 32>>

char_repr(id) ==
    IF id \in {0, 13} THEN <<>>
    ELSE IF from_u32(id) THEN
        IF id = 34 THEN <<92, 34>>
        ELSE IF id = 92 THEN <<92, 92>>
        ELSE IF is_control(id) THEN <<92, 117, 123>> \o UpperHex(id) \o <<125>>
        ELSE <<id>>
    ELSE <<92, 117, 123>> \o UpperHex(id) \o <<125>>

\* A line that gives the position before the size.
EntryPositionFirst(id, data) ==
    spaces \o spaces \o <<91, 34>> \o char_repr(id)
    \o <<34, 93, 32, 61, 32, 123, 32, 86, 101, 99, 116, 111, 114, 50, 46, 110, 101, 119, 40>>
    \o to_string(data.position.x) \o <<44, 32>> \o to_string(data.position.y)
    \o <<41, 44, 32, 86, 101, 99, 116, 111, 114, 50, 46, 110, 101, 119, 40>>
    \o to_string(data.size.width) \o <<44, 32>> \o to_string(data.size.height)
    \o <<41, 44, 32, 86, 101, 99, 116, 111, 114, 50, 46, 110, 101, 119, 40>>
    \o to_string(data.offset.x) \o <<44, 32>> \o to_string(data.offset.y)
    \o <<41, 44, 32>> \o to_string(data.advance) \o <<32, 125, 44, 10>>

\* The line pushed for one glyph:
\* {spaces}{spaces}["{}"] = { Vector2.new({}, {}), Vector2.new({}, {}), Vector2.new({}, {}), {} },\n
Entry(id, data) ==
    spaces \o spaces \o <<91, 34>> \o char_repr(id)
    \o <<34, 93, 32, 61, 32, 123, 32, 86, 101, 99, 116, 111, 114, 50, 46, 110, 101, 119, 40>>
    \o to_string(data.size.width) \o <<44, 32>> \o to_string(data.size.height)
    \o <<41, 44, 32, 86, 101, 99, 116, 111, 114, 50, 46, 110, 101, 119, 40>>
    \o to_string(data.position.x) \o <<44, 32>> \o to_string(data.position.y)
    \o <<41, 44, 32, 86, 101, 99, 116, 111, 114, 50, 46, 110, 101, 119, 40>>
    \o to_string(data.offset.x) \o <<44, 32>> \o to_string(data.offset.y)
    \o <<41, 44, 32>> \o to_string(data.advance) \o <<32, 125, 44, 10>>

RECURSIVE Entries(_, _, _)
Entries(font_data, keys, i) ==
    IF i > Len(keys) THEN <<>>
    ELSE Entry(keys[i], font_data[keys[i]]) \o Entries(font_data, keys, i + 1)

format_output(font_size, font_data) ==
    \* "return {\n{spaces}Size = {font_size},\n{spaces}Characters = {\n"
    <<114, 101, 116, 117, 114, 110, 32, 123, 10>>
    \o spaces \o <<83, 105, 122, 101, 32, 61, 32>> \o to_string(font_size) \o <<44, 10>>
    \o spaces \o <<67, 104, 97, 114, 97, 99, 116, 101, 114, 115, 32, 61, 32, 123, 10>>
    \o Entries(font_data, iter(font_data), 1)
    \* "{spaces}}\n}\n"
    \o spaces \o <<125, 10, 125, 10>>

-----------------------------------------------------------------------------
(* Inputs: what the tokenizer yields *)

\* An Ok(Attribute) and an Err(AttrError) item of e.attributes().
Attr(key, value) == [ok |-> TRUE, key |-> key, value |-> value]
AttrErr == [ok |-> FALSE, key |-> "", value |-> <<>>]

\* Event::Empty, Event::Start, any event without a name, and an Err.
Empty(name, attrs) == [kind |-> "Empty", name |-> name, attrs |-> attrs]
Start(name, attrs) == [kind |-> "Start", name |-> name, attrs |-> attrs]
End(name) == [kind |-> "End", name |-> name, attrs |-> <<>>]
XmlErr == [kind |-> "Err", name |-> "", attrs |-> <<>>]

File(events) == [readable |-> TRUE, events |-> events]
Unreadable == [readable |-> FALSE, events |-> <<>>]

MaxEvents == 2
MaxUIEvents == 2
MaxGlyphs == 2

\* char elements every attribute of which decodes.
GoodChars ==
    { \* <char id="65" x="1" y="2" width="8" height="16" xoffset="-2" yoffset="-1" xadvance="7"/>
      Empty("char", <<Attr("id", <<54, 53>>), Attr("x", <<49>>), Attr("y", <<50>>),
                      Attr("width", <<56>>), Attr("height", <<49, 54>>),
                      Attr("xoffset", <<45, 50>>), Attr("yoffset", <<45, 49>>),
                      Attr("xadvance", <<55>>)>>),
      \* <char id="65"/>
      Empty("char", <<Attr("id", <<54, 53>>)>>),
      \* <char xadvance="+9" chnl="abc" id="066"/>
      Empty("char", <<Attr("xadvance", <<43, 57>>), Attr("chnl", <<97, 98, 99>>),
                      Attr("id", <<48, 54, 54>>)>>),
      \* <char id="13" height="-2147483648" width="2147483647"/>
      Empty("char", <<Attr("id", <<49, 51>>),
                      Attr("height", <<45, 50, 49, 52, 55, 52, 56, 51, 54, 52, 56>>),
                      Attr("width", <<50, 49, 52, 55, 52, 56, 51, 54, 52, 55>>)>>),
      \* <char y="5"/>
      Empty("char", <<Attr("y", <<53>>)>>),
      \* <char/>
      Empty("char", <<>>) }

\* char elements with a recognized attribute whose value is no integer of
\* the field's type.
BadValueChars ==
    { \* <char id="-1"/>
      Empty("char", <<Attr("id", <<45, 49>>)>>),
      \* <char id="4294967296"/>
      Empty("char", <<Attr("id", <<52, 50, 57, 52, 57, 54, 55, 50, 57, 54>>)>>),
      \* <char id="67" x="2147483648"/>
      Empty("char", <<Attr("id", <<54, 55>>),
                      Attr("x", <<50, 49, 52, 55, 52, 56, 51, 54, 52, 56>>)>>),
      \* <char id="68" xadvance="abc"/>
      Empty("char", <<Attr("id", <<54, 56>>), Attr("xadvance", <<97, 98, 99>>)>>),
      \* <char width="" id="69"/>
      Empty("char", <<Attr("width", <<>>), Attr("id", <<54, 57>>)>>) }

\* Elements whose attribute list is malformed (quick_xml reads the list only
\* when attributes() is iterated): <char id="70" x=1/>, <info bold size="12"/>
BadAttrElems ==
    { Empty("char", <<Attr("id", <<55, 48>>), AttrErr>>),
      Empty("info", <<AttrErr, Attr("size", <<49, 50>>)>>) }

Infos ==
    { \* <info size="16"/>
      Empty("info", <<Attr("size", <<49, 54>>)>>),
      \* <info face="Arial" size="-3"/>
      Empty("info", <<Attr("face", <<65, 114, 105, 97, 108>>), Attr("size", <<45, 51>>)>>),
      \* <info id="abc"/>
      Empty("info", <<Attr("id", <<97, 98, 99>>)>>) }

\* <info size="1.5"/>
BadValueInfos == { Empty("info", <<Attr("size", <<49, 46, 53>>)>>) }

\* Events the loop skips: start tags (also of char and info), other elements,
\* end tags.
Skipped ==
    { \* <char id="71" xadvance="abc">
      Start("char", <<Attr("id", <<55, 49>>), Attr("xadvance", <<97, 98, 99>>)>>),
      \* <info size="99">
      Start("info", <<Attr("size", <<57, 57>>)>>),
      \* <common lineHeight="20" id="x"/>
      Empty("common", <<Attr("lineHeight", <<50, 48>>), Attr("id", <<120>>)>>),
      \* </font>
      End("font") }

EventPool ==
    GoodChars \cup BadValueChars \cup BadAttrElems \cup Infos \cup BadValueInfos
    \cup Skipped \cup {XmlErr}

Seqs(S, n) == UNION {[1..k -> S] : k \in 0..n}

\* The files of the core pipeline.
Files == {File(ev) : ev \in Seqs(EventPool, MaxEvents)} \cup {Unreadable}

-----------------------------------------------------------------------------
(* The core pipeline: parse_fnt, then format_output *)

\* None of Option<String> and of Option<PathBuf>.
NoPath == "None"
\* An empty message; a message is the pieces of its text (the emoji that
\* opens a message is left out).
NoStatus == [message |-> <<>>, status |-> "None"]
NoOutput == <<>>

NoFrame == [clicked |-> "none", calls |-> <<>>]

\* FontParserApp::default(), nothing on disk, no click yet.
UIIdle ==
    /\ selected_file = NoPath
    /\ status = NoStatus
    /\ disk = <<>>
    /\ frame = NoFrame

InitCore ==
    /\ input \in Files
    /\ pc = "start"
    /\ parsed = Failed
    /\ output = NoOutput
    /\ UIIdle

Parse ==
    /\ pc = "start"
    /\ parsed' = parse_fnt(input)
    /\ pc' = "parsed"
    /\ UNCHANGED <<input, output, selected_file, status, disk, frame>>

Format ==
    /\ pc = "parsed"
    /\ parsed.ok
    /\ output' = format_output(parsed.font_size, parsed.characters)
    /\ pc' = "formatted"
    /\ UNCHANGED <<input, parsed, selected_file, status, disk, frame>>

NextCore == Parse \/ Format

SpecCore == InitCore /\ [][NextCore]_vars

-----------------------------------------------------------------------------
(* The emitter alone: format_output on a font size and a glyph map *)

\* Codepoints around every boundary of char_repr's cases.
Codepoints ==
    {0, 1, 10, 13, 31, 32, 34, 65, 92, 126, 127, 159, 160,
     55295, 55296, 57343, 57344, 128512, 1114111, 1114112, I32Max}

Metrics ==
    { [size |-> [width |-> 8, height |-> 16], position |-> [x |-> 1, y |-> 2],
       offset |-> [x |-> -2, y |-> -1], advance |-> 7],
      [size |-> [width |-> I32Max, height |-> I32Min], position |-> [x |-> 0, y |-> 10],
       offset |-> [x |-> -10, y |-> 100], advance |-> -109] }

FontSizes == {0, 16, I32Min}

GlyphMaps ==
    UNION {[D -> Metrics] : D \in {D \in SUBSET Codepoints : Cardinality(D) <= MaxGlyphs}}

InitEmit ==
    /\ input = Unreadable
    /\ pc = "parsed"
    /\ parsed \in {[ok |-> TRUE, font_size |-> s, characters |-> m] :
                      s \in FontSizes, m \in GlyphMaps}
    /\ output = NoOutput
    /\ UIIdle

SpecEmit == InitEmit /\ [][Format]_vars

-----------------------------------------------------------------------------
(* The application: FontParserApp::update, one action per button *)

FntPath == "font.fnt"
BinPath == "binary.fnt"
LuaPath == "font.lua"

\* The file at a path the file picker can return: font.fnt holds `input`,
\* binary.fnt is not UTF-8.
ReadFile(path) == IF path = FntPath THEN input ELSE Unreadable

UIPool ==
    { \* <char id="65" x="1" y="2" width="8" height="16" xoffset="-2" yoffset="-1" xadvance="7"/>
      Empty("char", <<Attr("id", <<54, 53>>), Attr("x", <<49>>), Attr("y", <<50>>),
                      Attr("width", <<56>>), Attr("height", <<49, 54>>),
                      Attr("xoffset", <<45, 50>>), Attr("yoffset", <<45, 49>>),
                      Attr("xadvance", <<55>>)>>),
      \* <char id="68" xadvance="abc"/>
      Empty("char", <<Attr("id", <<54, 56>>), Attr("xadvance", <<97, 98, 99>>)>>),
      \* <char id="-1"/>
      Empty("char", <<Attr("id", <<45, 49>>)>>),
      \* <char id="67" x="2147483648"/>
      Empty("char", <<Attr("id", <<54, 55>>),
                      Attr("x", <<50, 49, 52, 55, 52, 56, 51, 54, 52, 56>>)>>),
      \* <info size="1.5"/>
      Empty("info", <<Attr("size", <<49, 46, 53>>)>>),
      \* <info size="16"/>
      Empty("info", <<Attr("size", <<49, 54>>)>>),
      \* <char id="71" xadvance="abc">
      Start("char", <<Attr("id", <<55, 49>>), Attr("xadvance", <<97, 98, 99>>)>>),
      \* <char id="70" x=1/>
      Empty("char", <<Attr("id", <<55, 48>>), AttrErr>>),
      XmlErr }

InitUI ==
    /\ input \in {File(ev) : ev \in Seqs(UIPool, MaxUIEvents)}
    /\ pc = "ui"
    /\ parsed = Failed
    /\ output = NoOutput
    /\ UIIdle

Call(fn, ret) == [fn |-> fn, ret |-> ret]

\* The "Select .fnt file" button was clicked: the file picker returns a path
\* or None.
SelectClicked ==
    \E path \in {FntPath, BinPath, NoPath} :
        /\ frame' = [clicked |-> "select", calls |-> <<Call("pick_file", path)>>]
        /\ IF path # NoPath
           THEN /\ selected_file' = path
                /\ status' = NoStatus
           ELSE UNCHANGED <<selected_file, status>>
        /\ UNCHANGED <<input, pc, parsed, output, disk>>

\* The disk once the file at path holds the text.
Written(path, text) == [p \in DOMAIN disk \cup {path} |-> IF p = path THEN text ELSE disk[p]]

\* Convert without a selected file handled as a file that cannot be opened
\* (parse_fnt on an empty path).
ConvertWithoutFileAsEmptyPath ==
    /\ status' = [message |-> <<"Error parsing file!">>, status |-> "error"]
    /\ frame' = [clicked |-> "convert", calls |-> <<Call("parse_fnt", "Err")>>]
    /\ UNCHANGED disk

\* Convert without a selected file: the warning.
ConvertWithoutFile ==
    /\ status' = [message |-> <<"Please select a .fnt file first">>, status |-> "warning"]
    /\ frame' = [clicked |-> "convert", calls |-> <<>>]
    /\ UNCHANGED disk

\* parse_fnt returned an Err.
ParseFailed ==
    /\ status' = [message |-> <<"Error parsing file!">>, status |-> "error"]
    /\ frame' = [clicked |-> "convert", calls |-> <<Call("parse_fnt", "Err")>>]
    /\ UNCHANGED disk

\* A cancelled save picker that clears the status as a picked input does.
SaveCancelledClears ==
    /\ frame' = [clicked |-> "convert",
                 calls |-> <<Call("parse_fnt", "Ok"), Call("save_file", NoPath)>>]
    /\ status' = NoStatus
    /\ UNCHANGED disk

\* The save picker returned None: the `if let Some(output_file)` has no else.
SaveCancelled ==
    /\ frame' = [clicked |-> "convert",
                 calls |-> <<Call("parse_fnt", "Ok"), Call("save_file", NoPath)>>]
    /\ UNCHANGED <<status, disk>>

\* The chars of the text a failing write_all can leave in the file.
MaxPartial == 2

\* The save picker returned a path.  std::fs::write is File::create (open,
\* create, truncate) and then write_all: it succeeds; or the open fails and
\* the disk is as it was; or the open succeeds and write_all fails, and the
\* file is left truncated, holding nothing or the start of the text.
Save(r, output_file) ==
    LET text == format_output(r.font_size, r.characters) IN
    \E outcome \in {"Ok", "OpenErr", "WriteErr"} :
        /\ frame' = [clicked |-> "convert",
                     calls |-> <<Call("parse_fnt", "Ok"), Call("save_file", output_file),
                                 Call("write", IF outcome = "Ok" THEN "Ok" ELSE "Err")>>]
        /\ IF outcome = "Ok"
           THEN /\ disk' = Written(output_file, text)
                /\ status' = [message |-> <<"Saved to ", output_file>>,
                              status |-> "success"]
           ELSE /\ status' = [message |-> <<"Error saving file: ", "io error">>,
                              status |-> "error"]
                /\ IF outcome = "OpenErr"
                   THEN UNCHANGED disk
                   ELSE \E n \in 0..MaxPartial :
                           /\ n < Len(text)
                           /\ disk' = Written(output_file, SubSeq(text, 1, n))

\* The "Convert" button was clicked.
ConvertClicked ==
    /\ UNCHANGED <<input, pc, parsed, output, selected_file>>
    /\ IF selected_file = NoPath THEN ConvertWithoutFile
       ELSE LET r == parse_fnt(ReadFile(selected_file)) IN
            IF ~r.ok THEN ParseFailed
            ELSE \E output_file \in {LuaPath, NoPath} :
                    IF output_file = NoPath THEN SaveCancelled ELSE Save(r, output_file)

Next == SelectClicked \/ ConvertClicked

Init == InitUI

Spec == Init /\ [][Next]_vars

-----------------------------------------------------------------------------
(* Reading a text back: what the claims say about the output *)

Range(seq) == {seq[i] : i \in 1..Len(seq)}

IsPrefix(p, t) == Len(p) <= Len(t) /\ SubSeq(t, 1, Len(p)) = p

Drop(t, n) == SubSeq(t, n + 1, Len(t))

\* The lines of a text, without their terminators; a last line that has no
\* terminator is kept as it is.
RECURSIVE Lines(_)
Lines(t) ==
    IF t = <<>> THEN <<>>
    ELSE IF \E i \in 1..Len(t) : t[i] = 10
    THEN LET n == CHOOSE i \in 1..Len(t) : t[i] = 10 /\ \A j \in 1..(i - 1) : t[j] # 10
         IN  <<SubSeq(t, 1, n - 1)>> \o Lines(Drop(t, n))
    ELSE <<t>>

NewlineTerminated(t) == t # <<>> /\ t[Len(t)] = 10

\* s is the decimal numeral of n: digits, a leading '-' exactly when n is
\* negative, no '+', no leading zero, and it reads back as n.
IsDecimalOf(s, n) ==
    /\ s # <<>>
    /\ (s[1] = 45) = (n < 0)
    /\ LET d == IF s[1] = 45 THEN Drop(s, 1) ELSE s
       IN  /\ d # <<>>
           /\ \A i \in 1..Len(d) : IsDigit(d[i])
           /\ (d[1] = 48) => (Len(d) = 1)
    /\ parse_i32(s) = [ok |-> TRUE, val |-> n]

\* The longest prefix of t made of '-' and digits.
RECURSIVE NumeralAt(_)
NumeralAt(t) ==
    IF t # <<>> /\ (t[1] = 45 \/ IsDigit(t[1]))
    THEN <<t[1]>> \o NumeralAt(Drop(t, 1))
    ELSE <<>>

Lit(text) == [lit |-> TRUE, text |-> text, num |-> 0]
Num(n) == [lit |-> FALSE, text |-> <<>>, num |-> n]

\* t is the pieces of `pattern` one after the other: a literal text, or the
\* decimal numeral of a number.
RECURSIVE Matches(_, _)
Matches(t, pattern) ==
    IF pattern = <<>> THEN t = <<>>
    ELSE LET p == Head(pattern) IN
         IF p.lit
         THEN IsPrefix(p.text, t) /\ Matches(Drop(t, Len(p.text)), Tail(pattern))
         ELSE LET m == NumeralAt(t)
              IN  IsDecimalOf(m, p.num) /\ Matches(Drop(t, Len(m)), Tail(pattern))

\* The i-th smallest element of a set of numbers.
Kth(S, i) == CHOOSE k \in S : Cardinality({j \in S : j < k}) = i - 1

\* '        ["'
EntryOpen == <<32, 32, 32, 32, 32, 32, 32, 32, 91, 34>>
\* '"] = { Vector2.new('
KeyClose == <<34, 93, 32, 61, 32, 123, 32, 86, 101, 99, 116, 111, 114, 50, 46, 110, 101, 119, 40>>
\* '), Vector2.new('
NextVector == <<41, 44, 32, 86, 101, 99, 116, 111, 114, 50, 46, 110, 101, 119, 40>>

\* The line of one glyph as the output shape gives it: atlas_size,
\* atlas_position, draw_offset, advance.
EntryPattern(key, data) ==
    << Lit(EntryOpen \o key \o KeyClose),
       Num(data.size.width), Lit(<<44, 32>>), Num(data.size.height), Lit(NextVector),
       Num(data.position.x), Lit(<<44, 32>>), Num(data.position.y), Lit(NextVector),
       Num(data.offset.x), Lit(<<44, 32>>), Num(data.offset.y), Lit(<<41, 44, 32>>),
       Num(data.advance), Lit(<<32, 125, 44>>) >>

\* The entry lines of an output: all but the three lines that open it and
\* the two that close it.
EntryLines(text) == LET L == Lines(text) IN SubSeq(L, 4, Len(L) - 2)

\* C8: format_output(S, M) is 'return {', '    Size = S,', '    Characters = {',
\* one line per codepoint of M giving atlas_size, atlas_position, draw_offset
\* and advance as decimal numerals (a '-' before a negative one), '    }' and
\* '}', each line newline-terminated; an empty M gives no entry line.
C8_OutputShape ==
    pc = "formatted" =>
        LET L == Lines(output)
            M == parsed.characters
            n == Cardinality(DOMAIN M)
        IN  /\ NewlineTerminated(output)
            /\ Len(L) = n + 5
            /\ L[1] = <<114, 101, 116, 117, 114, 110, 32, 123>>
            /\ Matches(L[2], << Lit(<<32, 32, 32, 32, 83, 105, 122, 101, 32, 61, 32>>),
                                Num(parsed.font_size), Lit(<<44>>) >>)
            /\ L[3] = <<32, 32, 32, 32, 67, 104, 97, 114, 97, 99, 116, 101, 114, 115,
                        32, 61, 32, 123>>
            /\ \A i \in 1..n :
                  LET c == Kth(DOMAIN M, i)
                  IN  Matches(L[3 + i], EntryPattern(char_repr(c), M[c]))
            /\ L[n + 4] = <<32, 32, 32, 32, 125>>
            /\ L[n + 5] = <<125>>

\* A map of two glyphs or more with a negative metric was formatted.
C8_Witness ==
    /\ pc = "formatted"
    /\ Cardinality(DOMAIN parsed.characters) >= 2
    /\ \E c \in DOMAIN parsed.characters : parsed.characters[c].offset.x < 0
    /\ parsed.font_size < 0

IsHexDigit(c) == IsDigit(c) \/ (c >= 65 /\ c <= 70)

RECURSIVE HexValue(_)
HexValue(h) ==
    IF h = <<>> THEN 0
    ELSE HexValue(SubSeq(h, 1, Len(h) - 1)) * 16
         + (IF IsDigit(h[Len(h)]) THEN h[Len(h)] - 48 ELSE h[Len(h)] - 55)

\* key is \u{HEX}, HEX the uppercase hexadecimal numeral of c without
\* leading zeros.
IsHexEscape(key, c) ==
    /\ Len(key) >= 5
    /\ SubSeq(key, 1, 3) = <<92, 117, 123>>
    /\ key[Len(key)] = 125
    /\ LET h == SubSeq(key, 4, Len(key) - 1)
       IN  /\ \A i \in 1..Len(h) : IsHexDigit(h[i])
           /\ h[1] # 48
           /\ Len(h) <= 8
           /\ HexValue(h) = c

\* The key of codepoint c as the key rendering rules give it.
IsKeyOf(key, c) ==
    IF c = 0 \/ c = 13 THEN key = <<>>
    ELSE IF c = 34 THEN key = <<92, 34>>
    ELSE IF c = 92 THEN key = <<92, 92>>
    ELSE IF \/ (c >= 1 /\ c <= 31) \/ c = 127 \/ (c >= 128 /\ c <= 159)
            \/ (c >= 55296 /\ c <= 57343) \/ c > 1114111
         THEN IsHexEscape(key, c)
    ELSE key = <<c>>

\* '"] = { '
AfterKey == <<34, 93, 32, 61, 32, 123, 32>>

\* The key of an entry line: what stands between '        ["' and the first
\* '"] = { '.
RECURSIVE UpTo(_, _)
UpTo(t, stop) ==
    IF t = <<>> \/ IsPrefix(stop, t) THEN <<>> ELSE <<t[1]>> \o UpTo(Drop(t, 1), stop)

KeyOfLine(line) == UpTo(Drop(line, Len(EntryOpen)), AfterKey)

\* C2: the key of codepoint C is empty for 0 and 13, \" for 34, \\ for 92,
\* \u{HEX} for any other control character and for a C that is no Unicode
\* scalar value, and the character itself otherwise.
C2_KeyRendering ==
    pc = "formatted" =>
        LET M == parsed.characters
            E == EntryLines(output)
        IN  /\ Len(E) = Cardinality(DOMAIN M)
            /\ \A i \in 1..Len(E) :
                  /\ IsPrefix(EntryOpen, E[i])
                  /\ IsKeyOf(KeyOfLine(E[i]), Kth(DOMAIN M, i))

\* A control character other than 13 and a surrogate were formatted.
C2_Witness ==
    /\ pc = "formatted"
    /\ \E c \in DOMAIN parsed.characters : c >= 127 /\ c <= 159
    /\ \E c \in DOMAIN parsed.characters : c >= 55296 /\ c <= 57343

-----------------------------------------------------------------------------
(* Reading an input: what the claims say about a document *)

IsChar(e) == e.kind = "Empty" /\ e.name = "char"
IsInfo(e) == e.kind = "Empty" /\ e.name = "info"

MetricKeys == {"x", "y", "width", "height", "xoffset", "yoffset", "xadvance"}

\* The attributes the decoder reads on an element of a name.
Recognized(name) ==
    IF name = "char" THEN MetricKeys \cup {"id"}
    ELSE IF name = "info" THEN {"size"}
    ELSE {}

HasAttr(e, key) == \E i \in 1..Len(e.attrs) : e.attrs[i].ok /\ e.attrs[i].key = key

AttrText(e, key) ==
    e.attrs[CHOOSE i \in 1..Len(e.attrs) : e.attrs[i].ok /\ e.attrs[i].key = key].value

\* The number an attribute gives; ok is FALSE when its text is no integer
\* of the field's type.
AttrNumber(e, key) ==
    IF key = "id" THEN parse_u32(AttrText(e, key)) ELSE parse_i32(AttrText(e, key))

\* The value of a field of an element: that of its attribute, 0 without one.
FieldOf(e, key) == IF HasAttr(e, key) THEN AttrNumber(e, key).val ELSE 0

\* The glyph record an element describes.
GlyphOf(e) ==
    [size |-> [width |-> FieldOf(e, "width"), height |-> FieldOf(e, "height")],
     position |-> [x |-> FieldOf(e, "x"), y |-> FieldOf(e, "y")],
     offset |-> [x |-> FieldOf(e, "xoffset"), y |-> FieldOf(e, "yoffset")],
     advance |-> FieldOf(e, "xadvance")]

\* The field of a glyph record an attribute fills.
Metric(data, key) ==
    CASE key = "x" -> data.position.x
      [] key = "y" -> data.position.y
      [] key = "width" -> data.size.width
      [] key = "height" -> data.size.height
      [] key = "xoffset" -> data.offset.x
      [] key = "yoffset" -> data.offset.y
      [] key = "xadvance" -> data.advance

\* The events before the first one the tokenizer reports as an error.
ErrAt(events) == {i \in 1..Len(events) : events[i].kind = "Err"}
ReadLen(events) == IF ErrAt(events) = {} THEN Len(events) ELSE Kth(ErrAt(events), 1) - 1

\* The positions of the char elements, and of the info elements, read.
CharsRead(events) == {i \in 1..ReadLen(events) : IsChar(events[i])}
InfosRead(events) == {i \in 1..ReadLen(events) : IsInfo(events[i])}

\* The char element at i is the last one read with its id.
LastOfId(events, i) ==
    \A j \in CharsRead(events) :
        j > i => FieldOf(events[j], "id") # FieldOf(events[i], "id")

HasAttrErr(e) == \E i \in 1..Len(e.attrs) : ~e.attrs[i].ok

\* A recognized attribute of e has a text that is no integer of its type.
HasBadValue(e) ==
    \E key \in Recognized(e.name) : HasAttr(e, key) /\ ~AttrNumber(e, key).ok

Decoded == pc \in {"parsed", "formatted"}

\* C3: of several char elements with one id the map holds the record of the
\* last, as a whole, and the output has one entry line for the codepoint.
C3_LastDefinitionWins ==
    (Decoded /\ parsed.ok) =>
        LET ev == input.events
            ids == {FieldOf(ev[i], "id") : i \in CharsRead(ev)}
        IN  /\ DOMAIN parsed.characters = ids
            /\ \A i \in CharsRead(ev) :
                  LastOfId(ev, i) =>
                      parsed.characters[FieldOf(ev[i], "id")] = GlyphOf(ev[i])
            /\ pc = "formatted" => Len(EntryLines(output)) = Cardinality(ids)

\* Two char elements with one id were decoded, the earlier giving a field
\* the later one lacks.
C3_Witness ==
    /\ pc = "formatted"
    /\ \E i, j \in CharsRead(input.events) :
          LET a == input.events[i]
              b == input.events[j]
          IN  /\ i < j
              /\ HasAttr(a, "id") /\ HasAttr(b, "id")
              /\ FieldOf(a, "id") = FieldOf(b, "id")
              /\ \E key \in MetricKeys :
                    HasAttr(a, key) /\ FieldOf(a, key) # 0 /\ ~HasAttr(b, key)

\* Every attribute item of the elements read is Ok and every recognized one
\* has an integer of its type.
AllPresentDecode(events) ==
    \A i \in CharsRead(events) \cup InfosRead(events) :
        ~HasAttrErr(events[i]) /\ ~HasBadValue(events[i])

\* C4: an attribute a char element lacks is recorded as 0 (an absent id as
\* codepoint 0), the font size is 0 when no info element gave a size, and
\* the result is a success.
C4_AbsentIsZero ==
    Decoded =>
        LET ev == input.events IN
        /\ (input.readable /\ AllPresentDecode(ev)) => parsed.ok
        /\ parsed.ok =>
              /\ \A i \in CharsRead(ev) :
                    /\ ~HasAttr(ev[i], "id") => 0 \in DOMAIN parsed.characters
                    /\ LastOfId(ev, i) =>
                          \A key \in MetricKeys :
                              ~HasAttr(ev[i], key) =>
                                  Metric(parsed.characters[FieldOf(ev[i], "id")], key) = 0
              /\ (\A i \in InfosRead(ev) : ~HasAttr(ev[i], "size")) => parsed.font_size = 0

\* A document of one char element that has only an id, and no info element,
\* was decoded and formatted.
C4_Witness ==
    /\ pc = "formatted"
    /\ InfosRead(input.events) = {}
    /\ \E i \in CharsRead(input.events) :
          /\ HasAttr(input.events[i], "id")
          /\ Len(input.events[i].attrs) = 1
          /\ FieldOf(input.events[i], "id") # 0

\* Every char element of the document is read and decodes.
AllCharsDecode ==
    /\ input.readable
    /\ parsed.ok
    /\ \A i \in 1..Len(input.events) : IsChar(input.events[i]) => i \in CharsRead(input.events)

Bijections(S) == {f \in [S -> S] : \A a, b \in S : f[a] = f[b] => a = b}

\* The documents that list the char elements of `events` in another order.
Reorderings(events) ==
    LET P == {i \in 1..Len(events) : IsChar(events[i])}
    IN  {[i \in 1..Len(events) |-> IF i \in P THEN events[f[i]] ELSE events[i]] :
            f \in Bijections(P)}

DistinctIds(events) ==
    \A i, j \in CharsRead(events) :
        i # j => FieldOf(events[i], "id") # FieldOf(events[j], "id")

\* C1: the entry lines stand in strictly ascending codepoint order whatever
\* the order of the char elements, and a document that lists the same glyphs
\* (distinct ids) in another order gives the same output.
C1_AscendingOrder ==
    (pc = "formatted" /\ AllCharsDecode) =>
        LET M == parsed.characters
            E == EntryLines(output)
        IN  /\ Len(E) = Cardinality(DOMAIN M)
            /\ \A i \in 1..Len(E) :
                  LET c == Kth(DOMAIN M, i) IN E[i] \o <<10>> = Entry(c, M[c])
            /\ DistinctIds(input.events) =>
                  \A other \in Reorderings(input.events) :
                      LET r == parse_fnt(File(other))
                      IN  r.ok /\ format_output(r.font_size, r.characters) = output

\* Two glyphs arrived in descending codepoint order and were formatted.
C1_Witness ==
    /\ pc = "formatted"
    /\ AllCharsDecode
    /\ \E i, j \in CharsRead(input.events) :
          i < j /\ FieldOf(input.events[i], "id") > FieldOf(input.events[j], "id")

\* The first event that is malformed XML: an error of the tokenizer, or a
\* char or info element whose attribute list is malformed.
MalformedAt(events) ==
    {i \in 1..Len(events) :
        \/ events[i].kind = "Err"
        \/ (IsChar(events[i]) \/ IsInfo(events[i])) /\ HasAttrErr(events[i])}

\* C5 as claimed: malformed XML, wherever it lies, stops the decoder, which
\* returns the font size and the glyphs decoded before the offending point,
\* and not an error.  (Stated for the documents whose part before that point
\* decodes.)
C5_MalformedReturnsPartial ==
    (Decoded /\ input.readable /\ MalformedAt(input.events) # {}) =>
        LET before == SubSeq(input.events, 1, Kth(MalformedAt(input.events), 1) - 1)
        IN  parse_fnt(File(before)).ok =>
                parsed.ok /\ parsed = parse_fnt(File(before))

WellFormed(events) ==
    \A i \in 1..Len(events) : events[i].kind # "Err" /\ ~HasAttrErr(events[i])

InsertAt(seq, p, x) == SubSeq(seq, 1, p) \o <<x>> \o SubSeq(seq, p + 1, Len(seq))

\* Attributes to add: chnl="15", page="abc", size="x", id="abc".
ExtraAttrs ==
    { Attr("chnl", <<49, 53>>), Attr("page", <<97, 98, 99>>),
      Attr("size", <<120>>), Attr("id", <<97, 98, 99>>) }

\* Elements to add: <common lineHeight="20" id="x"/>, <kerning first="65" xadvance="abc"/>,
\* <chars count="abc">
ExtraElems ==
    { Empty("common", <<Attr("lineHeight", <<50, 48>>), Attr("id", <<120>>)>>),
      Empty("kerning", <<Attr("first", <<54, 53>>), Attr("xadvance", <<97, 98, 99>>)>>),
      Start("chars", <<Attr("count", <<97, 98, 99>>)>>) }

\* The attributes of ExtraAttrs that are unrecognized on e and new to it.
NewAttrs(e) == {a \in ExtraAttrs : a.key \notin Recognized(e.name) /\ ~HasAttr(e, a.key)}

\* The documents that are `events` with one more attribute, unrecognized on
\* its element and new to it, on a char or info element, or with one more
\* element that is neither char nor info.
Extended(events) ==
    UNION { UNION { {[events EXCEPT ![i].attrs = InsertAt(@, p, a)] :
                        p \in 0..Len(events[i].attrs)} :
                    a \in NewAttrs(events[i]) } :
            i \in {i \in 1..Len(events) : events[i].name \in {"char", "info"}} }
    \cup {InsertAt(events, p, e) : p \in 0..Len(events), e \in ExtraElems}

\* C7: an unrecognized attribute added to a char or info element, or an
\* element added that is neither char nor info, changes neither the result
\* of parse_fnt nor the output, and a success stays a success.
C7_UnknownIgnored ==
    (Decoded /\ input.readable /\ WellFormed(input.events)) =>
        \A other \in Extended(input.events) :
            LET r == parse_fnt(File(other))
            IN  /\ r = parsed
                /\ pc = "formatted" =>
                      format_output(r.font_size, r.characters) = output

\* A well-formed document with a char and an info element was decoded and
\* formatted.
C7_Witness ==
    /\ pc = "formatted"
    /\ WellFormed(input.events)
    /\ CharsRead(input.events) # {}
    /\ InfosRead(input.events) # {}

-----------------------------------------------------------------------------
(* The application's claims *)

ParseError == [message |-> <<"Error parsing file!">>, status |-> "error"]

\* Some empty char or info element, anywhere in the document, has a
\* recognized attribute whose text is no integer of its type.
AnyBadValue(events) ==
    \E i \in 1..Len(events) :
        (IsChar(events[i]) \/ IsInfo(events[i])) /\ HasBadValue(events[i])

\* An empty char or info element that the decoder reads (no error of the
\* tokenizer comes before it) has such an attribute.
BadValueRead(events) ==
    \E i \in CharsRead(events) \cup InfosRead(events) : HasBadValue(events[i])

\* C6 as claimed: a recognized attribute whose value is no integer of its
\* type makes parse_fnt return an error, and Convert then shows "Error
\* parsing file", opens no save picker and writes no file.
C6_AnyBadValueIsError ==
    (frame.clicked = "convert" /\ selected_file = FntPath /\ AnyBadValue(input.events)) =>
        /\ status = ParseError
        /\ frame.calls = <<Call("parse_fnt", "Err")>>

\* C6 as amended: the same of such an attribute on an empty char or info
\* element that no error of the tokenizer precedes.
C6_BadValueReadIsError ==
    [][ (frame'.clicked = "convert" /\ selected_file = FntPath
         /\ BadValueRead(input.events)) =>
            /\ status' = ParseError
            /\ frame'.calls = <<Call("parse_fnt", "Err")>>
            /\ disk' = disk ]_vars

\* Convert ended in the error on a document whose bad value comes after a
\* glyph that decodes.
C6_Witness ==
    /\ frame.clicked = "convert"
    /\ selected_file = FntPath
    /\ status = ParseError
    /\ \E i, j \in CharsRead(input.events) :
          /\ i < j
          /\ ~HasBadValue(input.events[i]) /\ ~HasAttrErr(input.events[i])
          /\ HasBadValue(input.events[j])

\* C9: with no file selected a Convert click sets the warning and does
\* nothing else: no parse_fnt, no save picker, no write, no selection.
C9_ConvertWithoutFile ==
    [][ (frame'.clicked = "convert" /\ selected_file = NoPath) =>
            /\ status' = [message |-> <<"Please select a .fnt file first">>,
                          status |-> "warning"]
            /\ frame'.calls = <<>>
            /\ disk' = disk
            /\ selected_file' = NoPath ]_vars

\* Convert was clicked with no file selected.
C9_Witness ==
    /\ frame.clicked = "convert"
    /\ selected_file = NoPath
    /\ status.status = "warning"

\* C10: a cancelled save picker, and a cancelled file picker, leave the
\* selection, the status and the disk as they were, and the status is
\* cleared only by a file picker that returned a path.
C10_CancelChangesNothing ==
    [][ /\ (frame'.clicked = "convert" /\ Call("save_file", NoPath) \in Range(frame'.calls)) =>
              UNCHANGED <<selected_file, status, disk>>
        /\ (frame'.clicked = "select" /\ frame'.calls = <<Call("pick_file", NoPath)>>) =>
              UNCHANGED <<selected_file, status, disk>>
        /\ (status.message # <<>> /\ status'.message = <<>>) =>
              /\ frame'.clicked = "select"
              /\ Len(frame'.calls) = 1
              /\ frame'.calls[1].fn = "pick_file"
              /\ frame'.calls[1].ret # NoPath ]_vars

\* The save picker was cancelled while the status of an earlier conversion
\* was displayed.
C10_Witness ==
    /\ frame.clicked = "convert"
    /\ frame.calls = <<Call("parse_fnt", "Ok"), Call("save_file", NoPath)>>
    /\ status.status = "success"
    /\ LuaPath \in DOMAIN disk

====
